---- MODULE Spec2Model ----
(***************************************************************************)
(* A model of the GoodreadsAPI metadata source (src/__init__.py):           *)
(*   - the ISBN codec _ISBNConvert (pure functions over strings),           *)
(*   - the identifier resolver GoodreadsAPI.identify,                       *)
(*   - the metadata mapper GoodreadsAPI._GoodreadsBook_to_Metadata,         *)
(*   - the cover resolver GoodreadsAPI.get_cached_cover_url.                *)
(* Strings are sequences of one-character strings.  None is Python's None.  *)
(***************************************************************************)
EXTENDS Integers, Sequences, FiniteSets, TLC

None == "None"

(***************************************************************************)
(* ISBN codec: _ISBNConvert                                                 *)
(***************************************************************************)

\* The characters '0'..'9', in order: DigitChars[d + 1] is str(d).
DigitChars == <<"0", "1", "2", "3", "4", "5", "6", "7", "8", "9">>

Digits == {DigitChars[i] : i \in 1..10}

\* Word characters that are not digits (letters, underscore): "\w" minus "\d".
Letters == {"X", "x"}

\* Characters matched by "\W" (hyphen, blank, punctuation).
NonWord == {"-"}

Alphabet == Digits \cup Letters \cup NonWord

IsDigit(c) == c \in Digits

\* int(char) of a one-character string; Python raises ValueError on a non-digit,
\* which callers test with IsDigit before using IntOf.
IntOf(c) == CHOOSE d \in 0..9 : DigitChars[d + 1] = c

\* str(n) for 0 <= n <= 9
StrOf(n) == <<DigitChars[n + 1]>>

RECURSIVE SubNonWord(_)
\* re.sub("\W", "", isbn)
SubNonWord(s) ==
    IF s = <<>> THEN <<>>
    ELSE IF Head(s) \in NonWord THEN SubNonWord(Tail(s))
         ELSE <<Head(s)>> \o SubNonWord(Tail(s))

\* re.sub("\D", "X", short)
SubNonDigit(s) == [i \in 1..Len(s) |-> IF IsDigit(s[i]) THEN s[i] ELSE "X"]

_isbn_strip(isbn) == SubNonDigit(SubNonWord(isbn))

AllDigits(s) == \A i \in 1..Len(s) : IsDigit(s[i])

RECURSIVE SumI10(_, _)
\* the loop of checkI10 / isI10: sum_isbn += digit * int(char); digit -= 1,
\* isI10 reads 'X' as 10; checkI10 is only applied to all-digit stems here
SumI10(chars, digit) ==
    IF chars = <<>> THEN 0
    ELSE (digit * (IF Head(chars) = "X" THEN 10 ELSE IntOf(Head(chars))))
         + SumI10(Tail(chars), digit - 1)

RECURSIVE SumI13(_, _)
\* the loop of _checkI13 / isI13: weight 1 at even count, 3 at odd count
SumI13(chars, count) ==
    IF chars = <<>> THEN 0
    ELSE ((IF count % 2 = 0 THEN 1 ELSE 3) * IntOf(Head(chars)))
         + SumI13(Tail(chars), count + 1)

\* Result of a string-valued function of the codec: kind "ok" carries the
\* returned string, kind "False" is the return value False, any other kind
\* names the exception raised.
Ok(v) == [kind |-> "ok", val |-> v]

\* Result of a boolean function of the codec: "True", "False", or the name of
\* the exception raised.
Bool(b) == IF b THEN "True" ELSE "False"

Raise(e) == [kind |-> e, val |-> <<>>]

\* a result not computed yet
Unset == [kind |-> "unset", val |-> <<>>]

\* checkI10 with the weights starting at 9 instead of 10
checkI10_weight9(stem) ==
    IF ~AllDigits(stem) THEN Raise("ValueError")
    ELSE LET check == 11 - (SumI10(stem, 9) % 11)
         IN  IF check = 10 THEN Ok(<<"X">>)
             ELSE IF check = 11 THEN Ok(<<"0">>)
             ELSE Ok(StrOf(check))

checkI10(stem) ==
    IF ~AllDigits(stem) THEN Raise("ValueError")
    ELSE LET check == 11 - (SumI10(stem, 10) % 11)
         IN  IF check = 10 THEN Ok(<<"X">>)
             ELSE IF check = 11 THEN Ok(<<"0">>)
             ELSE Ok(StrOf(check))

isI10(isbn) ==
    LET short == _isbn_strip(isbn)
    IN  IF Len(short) # 10 THEN "False"
        ELSE Bool(SumI10(short, 10) % 11 = 0)

_checkI13(stem) ==
    IF ~AllDigits(stem) THEN Raise("ValueError")
    ELSE LET check == 10 - (SumI13(stem, 0) % 10)
         IN  IF check = 10 THEN Ok(<<"0">>) ELSE Ok(StrOf(check))

isI13(isbn) ==
    LET short == _isbn_strip(isbn)
    IN  IF Len(short) # 13 THEN "False"
        ELSE IF ~AllDigits(short) THEN "ValueError"
        ELSE Bool(SumI13(short, 0) % 10 = 0)

isValid(isbn) ==
    LET short == _isbn_strip(isbn)
    IN  IF Len(short) = 10 THEN isI10(short)
        ELSE IF Len(short) = 13 THEN isI13(short)
        ELSE "False"

_check(stem) ==
    LET short == _isbn_strip(stem)
    IN  IF Len(short) = 9 THEN checkI10(short)
        ELSE IF Len(short) = 12 THEN _checkI13(short)
        ELSE Raise("False")

\* stem + _check(stem): str + False is a TypeError, an exception propagates
Concat(stem, chk) ==
    IF chk.kind = "False" THEN Raise("TypeError")
    ELSE IF chk.kind # "ok" THEN chk
    ELSE Ok(stem \o chk.val)

convert(isbn) ==
    LET short == _isbn_strip(isbn)
        v     == isValid(short)
    IN  IF v \notin {"True", "False"} THEN Raise(v)
        ELSE IF v = "False" THEN Raise("Invalid ISBN")
        ELSE IF Len(short) = 10
             THEN LET stem == <<"9", "7", "8">> \o SubSeq(short, 1, 9)
                  IN  Concat(stem, _check(stem))
             ELSE IF SubSeq(short, 1, 3) = <<"9", "7", "8">>
                  THEN LET stem == SubSeq(short, 4, 12)
                       IN  Concat(stem, _check(stem))
                  ELSE Raise("ISBN not convertible")

(***************************************************************************)
(* Book Record (_GoodreadsBook) and Metadata Mapper                         *)
(***************************************************************************)

\* Python truthiness of a string-valued name: None and '' are false
Truthy(x) == x \notin {None, ""}

\* A text read character by character (an ISBN) and a list of child elements
\* are sequences; None is written Absent, the empty sequence: the accessors
\* return None for an empty text (line 230) and for a missing child element,
\* so an empty value never stands for anything else.
Absent == <<>>

GoodreadsIds == {"g1", "g2"}

Urls == {"u1"}

I13 == <<"9", "7", "8", "0", "3", "0", "6", "4", "0", "6", "1", "5", "7">>

I10 == <<"0", "3", "0", "6", "4", "0", "6", "1", "5", "2">>

\* unicode(None)
NoneText == <<"N", "o", "n", "e">>

\* unicode(x) of a text or None
unicode(x) == IF x = Absent THEN NoneText ELSE x

\* A parsed detail response, by the text of the paths the Book Record reads:
\* None (Absent) is a missing path.  shelves lists <shelf name, count>; a tag
\* is the sequence of its tokens, as Split yields them.
ShelfLists ==
    { << [name |-> <<"fantasy">>, count |-> 3], [name |-> <<"to-read">>, count |-> 1],
         [name |-> <<"fiction">>, count |-> 2] >> }

DetailBooks ==
    [ id        : GoodreadsIds,
      title     : {"61 Hours (Jack Reacher, #14)"},
      authors   : {Absent, <<"Lee Child">>},
      asin      : {"B00ASIN"},
      isbn13    : {Absent, I13},
      isbn      : {I10},
      image_url : {None} \cup Urls,
      shelves   : {Absent} \cup ShelfLists,
      series    : {None, "Jack Reacher", "C++"} ]

\* _GoodreadsBook.isbn
book_isbn(book) ==
    IF unicode(book.isbn13) # <<>> THEN unicode(book.isbn13) ELSE unicode(book.isbn)

RECURSIVE ShelfTags(_, _)
\* the loop of _GoodreadsBook.tags over the shelf elements
ShelfTags(shelves, threshold) ==
    IF shelves = <<>> THEN <<>>
    ELSE (IF Head(shelves).count >= threshold THEN <<Head(shelves).name>> ELSE <<>>)
         \o ShelfTags(Tail(shelves), threshold)

\* _GoodreadsBook.tags
book_tags(book, threshold) ==
    IF book.shelves = Absent THEN <<>> ELSE ShelfTags(book.shelves, threshold)

RECURSIVE Split(_)
\* str.split(','): the configured string is a sequence of tokens, "," among them
Split(toks) ==
    IF \A i \in 1..Len(toks) : toks[i] # "," THEN <<toks>>
    ELSE LET k == CHOOSE i \in 1..Len(toks) :
                      toks[i] = "," /\ \A j \in 1..(i - 1) : toks[j] # ","
         IN  <<SubSeq(toks, 1, k - 1)>> \o Split(SubSeq(toks, k + 1, Len(toks)))

\* calibre's check_isbn13 as the mapper calls it: the text itself when its
\* first 12 characters are digits and the 13th is their check digit, else None
check_isbn13(text) ==
    IF Len(text) < 13 \/ ~AllDigits(SubSeq(text, 1, 12)) THEN Absent
    ELSE IF _checkI13(SubSeq(text, 1, 12)).val = <<text[13]>> THEN text
    ELSE Absent

\* re.compile of the pattern clean_downloaded_metadata builds from mi.series:
\* "C++" is the regular-expression error "multiple repeat"
SeriesPatternCompiles(series) == series # "C++"

\* the title as clean_downloaded_metadata leaves it (series fragment and
\* parenthetical annotation removed, then fixcase)
CleanTitle(title) ==
    IF title = "61 Hours (Jack Reacher, #14)" THEN "61 Hours" ELSE title

\* GoodreadsAPI.clean_downloaded_metadata: the record, or the exception raised
clean_downloaded_metadata(mi) ==
    IF Truthy(mi.title) /\ ~SeriesPatternCompiles(mi.series)
    THEN [kind |-> "re.error", mi |-> mi]
    ELSE [kind |-> "ok", mi |-> [mi EXCEPT !.title = CleanTitle(@)]]

\* lines 613-621 without the NEVER_REPLACE_ISBN test
MappedIsbn_flag_ignored(book, p) ==
    IF book_isbn(book) # <<>>
    THEN IF Len(book_isbn(book)) = 10
         THEN LET c == convert(book_isbn(book))
              IN  IF c.kind = "ok" THEN check_isbn13(c.val) ELSE Absent
         ELSE check_isbn13(book_isbn(book))
    ELSE Absent

\* mi.isbn as lines 613-621 leave it
MappedIsbn(book, p) ==
    IF book_isbn(book) # <<>> /\ ~p.NEVER_REPLACE_ISBN
    THEN IF Len(book_isbn(book)) = 10
         THEN LET c == convert(book_isbn(book))
              IN  IF c.kind = "ok" THEN check_isbn13(c.val) ELSE Absent
         ELSE check_isbn13(book_isbn(book))
    ELSE Absent

\* whether lines 613-621 log "ISBN CONVERSION ERROR"
IsbnConversionFails(book, p) ==
    /\ book_isbn(book) # <<>>
    /\ ~p.NEVER_REPLACE_ISBN
    /\ Len(book_isbn(book)) = 10
    /\ convert(book_isbn(book)).kind # "ok"

\* the local list "tags" of lines 639-640
MapperLocalTags(book, p) ==
    Split(p.ADD_THESE_TAGS) \o book_tags(book, p.SHELF_COUNT_THRESHOLD)

\* the tags attribute of the record the mapper returns: the local list is
\* never assigned to mi.tags, which keeps Metadata's default, the empty list
MetadataTags(book, p) == <<>>

\* GoodreadsAPI._GoodreadsBook_to_Metadata(book) under preferences p and cover
\* cache c: kind "ok" with the record mi, or the exception raised; cache is the
\* cover cache and log the log entries written by the time it returns or raises.
_GoodreadsBook_to_Metadata(book, p, c) ==
    IF book.authors = Absent
    THEN [kind |-> "TypeError", mi |-> None, cache |-> c, log |-> {}]
    ELSE LET mi == [ title    |-> IF Truthy(book.title) THEN book.title ELSE "Unknown",
                     authors  |-> book.authors,
                     goodreads |-> book.id,
                     amazon   |-> IF Truthy(book.asin) /\ ~p.NEVER_REPLACE_AMAZONID
                                  THEN book.asin ELSE None,
                     isbn     |-> MappedIsbn(book, p),
                     tags     |-> MetadataTags(book, p),
                     series   |-> book.series ]
             c2 == IF Truthy(book.image_url)
                   THEN [c EXCEPT ![book.id] = book.image_url] ELSE c
             lg == (IF IsbnConversionFails(book, p)
                    THEN {<<"error", "ISBN CONVERSION ERROR">>} ELSE {})
                   \cup (IF Truthy(book.image_url)
                         THEN {<<"info", "cache_identifier_to_cover_url">>} ELSE {})
                   \cup (IF Truthy(book.series) THEN {<<"info", "series">>} ELSE {})
             cl == clean_downloaded_metadata(mi)
         IN  [kind |-> cl.kind, mi |-> cl.mi, cache |-> c2, log |-> lg]

(***************************************************************************)
(* Inputs of the codec: a fixed head followed by every tail over Alphabet   *)
(* of length up to MaxTail.                                                 *)
(***************************************************************************)
MaxTail == 3

RECURSIVE SeqsUpTo(_, _)
SeqsUpTo(S, n) ==
    IF n = 0 THEN {<<>>}
    ELSE LET shorter == SeqsUpTo(S, n - 1)
         IN  shorter \cup {Append(s, c) : s \in {t \in shorter : Len(t) = n - 1}, c \in S}

IsbnHeads ==
    { <<"0", "3", "0", "6", "4", "0", "6">>,
      <<"0", "-", "8", "0", "4", "4", "2", "9">>,
      <<"9", "7", "8", "0", "3", "0", "6", "4", "0", "6">>,
      <<"9", "7", "8", "-", "0", "8", "0", "4", "4", "2", "9">>,
      <<"9", "7", "9", "1", "0", "9", "0", "6", "3", "6">> }

IsbnInputs == {h \o t : h \in IsbnHeads, t \in SeqsUpTo(Alphabet, MaxTail)}

(***************************************************************************)
(* State                                                                    *)
(***************************************************************************)
\* the worker threads on which the host invokes the plugin instance
Threads == {"w1", "w2"}

VARIABLES
    isbn, valid, conv, back,   \* the codec's caller: input and results
    prefs,          \* self.prefs, the host-owned configuration
    url_cache,      \* the cover cache: goodreads id -> image url or None
    isbn_cache,     \* the cache's isbn -> goodreads id part
    selfLog,        \* self.log: the thread whose log object it refers to
    pc,             \* each invocation's position
    args,           \* each invocation's identifiers and title
    goodreads_id,   \* identify's local goodreads_id
    calls,          \* the remote calls each invocation has issued, in order
    result_queue,   \* the result sink passed to each invocation
    logs,           \* the log object passed to each invocation
    outcome,        \* how each invocation ended
    book,           \* the detail response each invocation parsed
    cover,          \* the value get_cached_cover_url returned
    op,             \* the entry point each invocation was started through
    abort,          \* the abort event passed to each invocation: is it set
    rq              \* download_cover's local queue, passed to its identify

codecVars == <<isbn, valid, conv, back>>

pluginVars ==
    <<prefs, url_cache, isbn_cache, selfLog, pc, args, goodreads_id, calls,
      result_queue, logs, outcome, book, cover, op, abort, rq>>

vars == <<codecVars, pluginVars>>

Amazons == {"B000AMZN"}

Isbns == {"9780385340588"}

Titles == {"61 Hours"}

\* what the host passes: identifiers and title, each present or not
ArgSets ==
    [ amazon    : {None} \cup Amazons,
      goodreads : {None} \cup GoodreadsIds,
      isbn      : {None} \cup Isbns,
      title     : {None} \cup Titles ]

NoArgs == [amazon |-> None, goodreads |-> None, isbn |-> None, title |-> None]

\* no detail response parsed
NoBook ==
    [ id |-> None, title |-> None, authors |-> Absent, asin |-> None,
      isbn13 |-> Absent, isbn |-> Absent, image_url |-> None, shelves |-> Absent,
      series |-> None ]

\* the option values; NEVER_REPLACE_AMAZONID and SHELF_COUNT_THRESHOLD are at
\* their defaults (lines 451-453)
DefaultThreshold == 2

PrefSets ==
    [ DISABLE_TITLE_AUTHOR_SEARCH : BOOLEAN,
      NEVER_REPLACE_ISBN          : BOOLEAN,
      NEVER_REPLACE_AMAZONID      : {TRUE},
      SHELF_COUNT_THRESHOLD       : {DefaultThreshold},
      ADD_THESE_TAGS              : {<<"GoodreadsAPI", ",", "read">>} ]

\* urlopen(request).read() of the id-lookup: raises, or returns the body
IdLookupResponses ==
    {[kind |-> "raise", body |-> ""]}
        \cup {[kind |-> "body", body |-> b] : b \in {""} \cup GoodreadsIds}

\* the longest candidate list the fuzzy search returns
MaxResults == 2

\* urlopen(...).read() and json.loads of the fuzzy search: raises, is not the
\* JSON expected, or is the list of the candidates' bookId
FuzzyResponses ==
    {[kind |-> k, list |-> <<>>] : k \in {"raise", "malformed"}}
        \cup {[kind |-> "json", list |-> l] : l \in SeqsUpTo(GoodreadsIds, MaxResults)}

\* urlopen(request_book).read() and objectify.fromstring of the detail fetch
DetailFailures == {"raise", "unparseable"}

Init ==
    /\ isbn = <<>> /\ valid = "unset" /\ conv = Unset /\ back = Unset
    /\ prefs \in PrefSets
    /\ url_cache = [g \in GoodreadsIds |-> None]
    /\ isbn_cache = [i \in Isbns |-> None]
    /\ selfLog = None
    /\ pc = [t \in Threads |-> "idle"]
    /\ args = [t \in Threads |-> NoArgs]
    /\ goodreads_id = [t \in Threads |-> None]
    /\ calls = [t \in Threads |-> <<>>]
    /\ result_queue = [t \in Threads |-> <<>>]
    /\ logs = [t \in Threads |-> {}]
    /\ outcome = [t \in Threads |-> "none"]
    /\ book = [t \in Threads |-> NoBook]
    /\ cover = [t \in Threads |-> None]
    /\ op = [t \in Threads |-> "none"]
    /\ abort = [t \in Threads |-> FALSE]
    /\ rq = [t \in Threads |-> <<>>]

\* self.log.<level>(...) executed by invocation t: the entries go to the log
\* object self.log refers to; each is kept with the invocation it came from
LogTo(t, lg, entries) ==
    [lg EXCEPT ![selfLog] = @ \cup {<<e[1], e[2], t>> : e \in entries}]

\* a remote call: the interface, what was asked, what came back over the wire
\* (resp) and what the calling code made of it (res: the value, or the
\* exception it raised)
Call(api, arg, resp, res) == [api |-> api, arg |-> arg, resp |-> resp, res |-> res]

\* lines 541-556: the host enters identify, with an abort event that is set
\* or not (Aborts: the values the host passes); goodreads_id = None;
\* self.log = log.  identify never reads abort.
identify_enter(t, Aborts) ==
    /\ pc[t] = "idle"
    /\ \E a \in ArgSets : args' = [args EXCEPT ![t] = a]
    /\ \E b \in Aborts : abort' = [abort EXCEPT ![t] = b]
    /\ op' = [op EXCEPT ![t] = "identify"]
    /\ pc' = [pc EXCEPT ![t] = "amazon"]
    /\ selfLog' = t
    /\ goodreads_id' = [goodreads_id EXCEPT ![t] = None]
    /\ calls' = [calls EXCEPT ![t] = <<>>]
    /\ result_queue' = [result_queue EXCEPT ![t] = <<>>]
    /\ rq' = [rq EXCEPT ![t] = <<>>]
    /\ logs' = [logs EXCEPT ![t] = {}]
    /\ outcome' = [outcome EXCEPT ![t] = "running"]
    /\ book' = [book EXCEPT ![t] = NoBook]
    /\ cover' = [cover EXCEPT ![t] = None]
    /\ UNCHANGED <<codecVars, prefs, url_cache, isbn_cache>>

\* the id-lookup without its try/except: what urlopen raises leaves identify
IdLookup_propagating(t, key, next) ==
    /\ IF Truthy(args[t][key])
       THEN \E r \in IdLookupResponses :
               /\ logs' = LogTo(t, logs, {<<"info", "ISBN_TO_BOOKID">>})
               /\ calls' = [calls EXCEPT ![t] = Append(@,
                      Call("isbn_to_id", args[t][key], r.kind,
                           IF r.kind = "raise" THEN "raise" ELSE r.body))]
               /\ IF r.kind = "raise"
                  THEN /\ pc' = [pc EXCEPT ![t] = "done"]
                       /\ outcome' = [outcome EXCEPT ![t] = "raised"]
                       /\ UNCHANGED goodreads_id
                  ELSE /\ pc' = [pc EXCEPT ![t] = next]
                       /\ goodreads_id' = [goodreads_id EXCEPT ![t] = r.body]
                       /\ UNCHANGED outcome
       ELSE /\ pc' = [pc EXCEPT ![t] = next]
            /\ UNCHANGED <<logs, calls, goodreads_id, outcome>>
    /\ UNCHANGED <<codecVars, op, abort, rq, prefs, url_cache, isbn_cache, selfLog,
                   args, result_queue, book, cover>>

\* lines 557-563 (key = "amazon") and 566-572 (key = "isbn"): the id-lookup,
\* whose exception is swallowed
IdLookup(t, key, next) ==
    /\ IF Truthy(args[t][key])
       THEN \E r \in IdLookupResponses :
               /\ logs' = LogTo(t, logs, {<<"info", "ISBN_TO_BOOKID">>})
               /\ calls' = [calls EXCEPT ![t] = Append(@,
                      Call("isbn_to_id", args[t][key], r.kind,
                           IF r.kind = "raise" THEN "raise" ELSE r.body))]
               /\ goodreads_id' = [goodreads_id EXCEPT ![t] =
                                      IF r.kind = "raise" THEN @ ELSE r.body]
       ELSE UNCHANGED <<logs, calls, goodreads_id>>
    /\ pc' = [pc EXCEPT ![t] = next]
    /\ UNCHANGED <<codecVars, op, abort, rq, prefs, url_cache, isbn_cache, selfLog,
                   args, result_queue, outcome, book, cover>>

\* lines 557-563
identify_amazon(t) ==
    /\ pc[t] = "amazon"
    /\ IdLookup(t, "amazon", "goodreads")

\* lines 564-565
identify_goodreads(t) ==
    /\ pc[t] = "goodreads"
    /\ goodreads_id' = [goodreads_id EXCEPT ![t] =
          IF ~Truthy(@) /\ Truthy(args[t].goodreads) THEN args[t].goodreads ELSE @]
    /\ pc' = [pc EXCEPT ![t] = "isbn"]
    /\ UNCHANGED <<codecVars, op, abort, rq, prefs, url_cache, isbn_cache, selfLog,
                   args, calls, result_queue, logs, outcome, book, cover>>

\* the isbn lookup without the "not goodreads_id" test of line 566
identify_isbn_unguarded(t) ==
    /\ pc[t] = "isbn"
    /\ IdLookup(t, "isbn", "fuzzy")

\* lines 566-572
identify_isbn(t) ==
    /\ pc[t] = "isbn"
    /\ IF ~Truthy(goodreads_id[t])
       THEN IdLookup(t, "isbn", "fuzzy")
       ELSE /\ pc' = [pc EXCEPT ![t] = "fuzzy"]
            /\ UNCHANGED <<codecVars, op, abort, rq, prefs, url_cache, isbn_cache,
                           selfLog, args, goodreads_id, calls, result_queue, logs,
                           outcome, book, cover>>

\* _autocomplete_api testing len(result) >= 0: result[0] of an empty list
\* raises IndexError
_autocomplete_api_offbyone(r) ==
    IF r.kind # "json" THEN [kind |-> "raise", id |-> None]
    ELSE IF Len(r.list) >= 1 THEN [kind |-> "ok", id |-> r.list[1]]
    ELSE [kind |-> "raise", id |-> None]

\* _autocomplete_api (lines 518-539) on response r: returns the bookId of the
\* first candidate, or None for an empty list; raises what urlopen, json.loads
\* or the indexing raises
_autocomplete_api(r) ==
    IF r.kind # "json" THEN [kind |-> "raise", id |-> None]
    ELSE IF Len(r.list) >= 1 THEN [kind |-> "ok", id |-> r.list[1]]
    ELSE [kind |-> "ok", id |-> None]

\* lines 574-576: the fuzzy search; nothing catches what _autocomplete_api raises
identify_fuzzy(t) ==
    /\ pc[t] = "fuzzy"
    /\ IF ~Truthy(goodreads_id[t]) /\ Truthy(args[t].title)
          /\ ~prefs.DISABLE_TITLE_AUTHOR_SEARCH
       THEN \E r \in FuzzyResponses :
               /\ logs' = LogTo(t, logs, {<<"info", "AUTOCOMPLETEAPI">>,
                                       <<"info", "autocomplete url">>})
               /\ LET a == _autocomplete_api(r)
                  IN  /\ calls' = [calls EXCEPT ![t] = Append(@,
                             Call("auto_complete", args[t].title,
                                  IF r.kind = "json" /\ r.list = <<>>
                                  THEN "empty list" ELSE r.kind,
                                  IF a.kind = "ok" THEN a.id ELSE "raise"))]
                      /\ IF a.kind = "ok"
                         THEN /\ goodreads_id' = [goodreads_id EXCEPT ![t] = a.id]
                              /\ pc' = [pc EXCEPT ![t] = "detail"]
                              /\ UNCHANGED outcome
                         ELSE /\ pc' = [pc EXCEPT ![t] = "done"]
                              /\ outcome' = [outcome EXCEPT ![t] = "raised"]
                              /\ UNCHANGED goodreads_id
       ELSE /\ pc' = [pc EXCEPT ![t] = "detail"]
            /\ UNCHANGED <<logs, calls, goodreads_id, outcome>>
    /\ UNCHANGED <<codecVars, op, abort, rq, prefs, url_cache, isbn_cache, selfLog,
                   args, result_queue, book, cover>>

\* an except branch that logs nothing
DetailError_silent == {}

\* lines 586-590: the except branch of the detail fetch
DetailError == {<<"error", "e.message">>, <<"error", "print_stack">>}

\* line 593, result_queue.put(mi): the queue identify was passed is the
\* host's, or the local rq of download_cover (lines 698-699)
put(t, mi) ==
    IF op[t] = "download_cover"
    THEN rq' = [rq EXCEPT ![t] = Append(@, mi)] /\ UNCHANGED result_queue
    ELSE result_queue' = [result_queue EXCEPT ![t] = Append(@, mi)] /\ UNCHANGED rq

\* lines 578-595: the detail fetch, the mapping, the cleanup and the put
identify_detail(t) ==
    /\ pc[t] = "detail"
    /\ IF Truthy(goodreads_id[t])
       THEN \/ \E f \in DetailFailures :
                  /\ calls' = [calls EXCEPT ![t] = Append(@,
                         Call("book_show", goodreads_id[t], f, "raise"))]
                  /\ logs' = LogTo(t, logs, {<<"info", "BOOK_SHOW">>} \cup DetailError)
                  /\ UNCHANGED <<url_cache, result_queue, rq, book>>
            \/ \E b \in DetailBooks :
                  LET m == _GoodreadsBook_to_Metadata(b, prefs, url_cache)
                  IN  /\ calls' = [calls EXCEPT ![t] = Append(@,
                             Call("book_show", goodreads_id[t], "xml", m.kind))]
                      /\ book' = [book EXCEPT ![t] = b]
                      /\ url_cache' = m.cache
                      /\ IF m.kind = "ok"
                         THEN /\ logs' = LogTo(t, logs,
                                                {<<"info", "BOOK_SHOW">>} \cup m.log)
                              /\ put(t, clean_downloaded_metadata(m.mi).mi)
                         ELSE /\ logs' = LogTo(t, logs, {<<"info", "BOOK_SHOW">>}
                                                     \cup m.log \cup DetailError)
                              /\ UNCHANGED <<result_queue, rq>>
       ELSE UNCHANGED <<calls, logs, url_cache, result_queue, rq, book>>
    /\ pc' = [pc EXCEPT ![t] = "done"]
    /\ outcome' = [outcome EXCEPT ![t] = "returned"]
    /\ UNCHANGED <<codecVars, op, abort, prefs, isbn_cache, selfLog, args, goodreads_id,
                   cover>>

\* GoodreadsAPI.get_cached_cover_url(identifiers), lines 482-491
get_cached_cover_url(identifiers) ==
    IF Truthy(identifiers.goodreads) THEN url_cache[identifiers.goodreads] ELSE None

\* the host asks for the cached cover of an identifier set
cover_lookup(t) ==
    /\ pc[t] = "idle"
    /\ \E a \in ArgSets :
          /\ args' = [args EXCEPT ![t] = a]
          /\ cover' = [cover EXCEPT ![t] = get_cached_cover_url(a)]
    /\ pc' = [pc EXCEPT ![t] = "done"]
    /\ outcome' = [outcome EXCEPT ![t] = "cover"]
    /\ op' = [op EXCEPT ![t] = "get_cached_cover_url"]
    /\ calls' = [calls EXCEPT ![t] = <<>>]
    /\ result_queue' = [result_queue EXCEPT ![t] = <<>>]
    /\ rq' = [rq EXCEPT ![t] = <<>>]
    /\ logs' = [logs EXCEPT ![t] = {}]
    /\ goodreads_id' = [goodreads_id EXCEPT ![t] = None]
    /\ book' = [book EXCEPT ![t] = NoBook]
    /\ UNCHANGED <<codecVars, prefs, url_cache, isbn_cache, selfLog, abort>>

\* Source.cache_isbn_to_identifier(isbn, identifier): the cache's isbn part,
\* filled through the instance by its owner
cache_isbn_to_identifier ==
    /\ \E i \in Isbns, g \in GoodreadsIds :
          /\ isbn_cache[i] = None
          /\ isbn_cache' = [isbn_cache EXCEPT ![i] = g]
    /\ UNCHANGED <<codecVars, prefs, url_cache, selfLog, pc, args, goodreads_id,
                   calls, result_queue, logs, outcome, book, cover, op, abort, rq>>

\* download_cover's call of identify (line 699) has come back to it
IdentifyInsideDownloadCover(t) ==
    op[t] = "download_cover" /\ outcome[t] \in {"returned", "raised"}

\* lines 706-707, abort.is_set(), once download_cover holds a url: where it
\* goes next and what it returns
AbortCheck(t, b) ==
    /\ pc' = [pc EXCEPT ![t] = IF b THEN "done" ELSE "download"]
    /\ outcome' = [outcome EXCEPT ![t] = IF b THEN "abort" ELSE "downloading"]

\* lines 693-699: the host enters download_cover, with an abort event that is
\* set or not; self.log = log; with a cached url it goes to the abort check,
\* without one it calls identify with self.log, a local queue and the same
\* abort, title and identifiers (identify's lines 553-556 included)
download_cover_enter(t) ==
    /\ pc[t] = "idle"
    /\ op' = [op EXCEPT ![t] = "download_cover"]
    /\ selfLog' = t
    /\ \E a \in ArgSets, b \in BOOLEAN :
          /\ args' = [args EXCEPT ![t] = a]
          /\ abort' = [abort EXCEPT ![t] = b]
          /\ cover' = [cover EXCEPT ![t] = get_cached_cover_url(a)]
          /\ IF get_cached_cover_url(a) = None
             THEN /\ logs' = [logs EXCEPT ![t] = {<<"info", "No cached cover found", t>>}]
                  /\ pc' = [pc EXCEPT ![t] = "amazon"]
                  /\ outcome' = [outcome EXCEPT ![t] = "running"]
             ELSE /\ logs' = [logs EXCEPT ![t] = {}]
                  /\ AbortCheck(t, b)
    /\ goodreads_id' = [goodreads_id EXCEPT ![t] = None]
    /\ calls' = [calls EXCEPT ![t] = <<>>]
    /\ result_queue' = [result_queue EXCEPT ![t] = <<>>]
    /\ rq' = [rq EXCEPT ![t] = <<>>]
    /\ book' = [book EXCEPT ![t] = NoBook]
    /\ UNCHANGED <<codecVars, prefs, url_cache, isbn_cache>>

\* lines 700-707: identify has come back; what it raised is returned as
\* e.message; otherwise the cache is asked again with the same identifiers
download_cover_resume(t) ==
    /\ pc[t] = "done"
    /\ IdentifyInsideDownloadCover(t)
    /\ IF outcome[t] = "raised"
       THEN /\ outcome' = [outcome EXCEPT ![t] = "e.message"]
            /\ UNCHANGED <<pc, cover>>
       ELSE /\ cover' = [cover EXCEPT ![t] = get_cached_cover_url(args[t])]
            /\ IF get_cached_cover_url(args[t]) = None
               THEN /\ outcome' = [outcome EXCEPT ![t] = "Could not identify"]
                    /\ UNCHANGED pc
               ELSE AbortCheck(t, abort[t])
    /\ UNCHANGED <<codecVars, op, abort, rq, prefs, url_cache, isbn_cache, selfLog,
                   args, goodreads_id, calls, result_queue, logs, book>>

\* br.open_novisit(cached_url, timeout).read(): raises, or returns the image
CoverResponses == {"raise", "cdata"}

\* lines 709-716: the image download; (self, cdata) is put on the host's
\* queue, or the failure is logged and returned as a message
download_cover_fetch(t) ==
    /\ pc[t] = "download"
    /\ \E r \in CoverResponses :
          /\ calls' = [calls EXCEPT ![t] = Append(@,
                 Call("open_novisit", cover[t], r, r))]
          /\ IF r = "cdata"
             THEN /\ logs' = LogTo(t, logs, {<<"info", "Downloading cover from:">>})
                  /\ result_queue' = [result_queue EXCEPT ![t] =
                         Append(@, <<"self", "cdata">>)]
                  /\ outcome' = [outcome EXCEPT ![t] = "None"]
             ELSE /\ logs' = LogTo(t, logs, {<<"info", "Downloading cover from:">>,
                                             <<"error", "Failed to download cover">>})
                  /\ outcome' = [outcome EXCEPT ![t] = "Failed to download cover"]
                  /\ UNCHANGED result_queue
    /\ pc' = [pc EXCEPT ![t] = "done"]
    /\ UNCHANGED <<codecVars, op, abort, rq, prefs, url_cache, isbn_cache, selfLog,
                   args, goodreads_id, book, cover>>

\* the host has taken the invocation's results; the thread is free again
host_collect(t) ==
    /\ pc[t] = "done"
    /\ ~IdentifyInsideDownloadCover(t)
    /\ op' = [op EXCEPT ![t] = "none"]
    /\ abort' = [abort EXCEPT ![t] = FALSE]
    /\ pc' = [pc EXCEPT ![t] = "idle"]
    /\ args' = [args EXCEPT ![t] = NoArgs]
    /\ goodreads_id' = [goodreads_id EXCEPT ![t] = None]
    /\ calls' = [calls EXCEPT ![t] = <<>>]
    /\ result_queue' = [result_queue EXCEPT ![t] = <<>>]
    /\ rq' = [rq EXCEPT ![t] = <<>>]
    /\ logs' = [logs EXCEPT ![t] = {}]
    /\ outcome' = [outcome EXCEPT ![t] = "none"]
    /\ book' = [book EXCEPT ![t] = NoBook]
    /\ cover' = [cover EXCEPT ![t] = None]
    /\ UNCHANGED <<codecVars, prefs, url_cache, isbn_cache, selfLog>>

\* the host runs one invocation at a time, on its first worker thread
OneAtATime(t) == t = "w1" /\ \A u \in Threads : pc[u] = "idle"

Next ==
    \/ \E t \in Threads : OneAtATime(t) /\ identify_enter(t, {FALSE})
    \/ \E t \in Threads : OneAtATime(t) /\ cover_lookup(t)
    \/ \E t \in Threads : identify_amazon(t)
    \/ \E t \in Threads : identify_goodreads(t)
    \/ \E t \in Threads : identify_isbn(t)
    \/ \E t \in Threads : identify_fuzzy(t)
    \/ \E t \in Threads : identify_detail(t)
    \/ \E t \in Threads : host_collect(t)
    \/ cache_isbn_to_identifier

Spec == Init /\ [][Next]_vars

(***************************************************************************)
(* identify and download_cover under an abort event that is set or not, one *)
(* invocation at a time, the options at their defaults                      *)
(***************************************************************************)
InitCover == Init /\ prefs.NEVER_REPLACE_ISBN /\ ~prefs.DISABLE_TITLE_AUTHOR_SEARCH

NextCover ==
    \/ \E t \in Threads : OneAtATime(t) /\ identify_enter(t, BOOLEAN)
    \/ \E t \in Threads : OneAtATime(t) /\ download_cover_enter(t)
    \/ \E t \in Threads : identify_amazon(t)
    \/ \E t \in Threads : identify_goodreads(t)
    \/ \E t \in Threads : identify_isbn(t)
    \/ \E t \in Threads : identify_fuzzy(t)
    \/ \E t \in Threads : identify_detail(t)
    \/ \E t \in Threads : download_cover_resume(t)
    \/ \E t \in Threads : download_cover_fetch(t)
    \/ \E t \in Threads : host_collect(t)

SpecCover == InitCover /\ [][NextCover]_vars

(***************************************************************************)
(* Two host threads invoke identify and download_cover on the one instance  *)
(* at the same time, each once, their steps interleaved.  The host passes a *)
(* goodreads id or a title, and the detail responses are complete ones.     *)
(***************************************************************************)
ConcArgs ==
    {a \in ArgSets : a.amazon = None /\ a.isbn = None
                        /\ (Truthy(a.goodreads) # Truthy(a.title))}

ConcBooks ==
    {b \in DetailBooks : /\ b.authors # Absent /\ b.isbn13 # Absent
                          /\ b.shelves = Absent /\ b.series = None}

NextConc ==
    \/ \E t \in Threads : identify_enter(t, {FALSE}) /\ args'[t] \in ConcArgs
    \/ \E t \in Threads : download_cover_enter(t) /\ args'[t] \in ConcArgs
                               /\ ~abort'[t]
    \/ \E t \in Threads : identify_amazon(t)
    \/ \E t \in Threads : identify_goodreads(t)
    \/ \E t \in Threads : identify_isbn(t)
    \/ \E t \in Threads : identify_fuzzy(t)
    \/ \E t \in Threads : identify_detail(t) /\ book'[t] \in ConcBooks \cup {NoBook}
    \/ \E t \in Threads : download_cover_resume(t)
    \/ \E t \in Threads : download_cover_fetch(t)

SpecConc == InitCover /\ [][NextConc]_vars

(***************************************************************************)
(* The codec on its own: a caller applies it to one input                   *)
(***************************************************************************)
CodecInit ==
    /\ isbn \in IsbnInputs
    /\ valid = "unset"
    /\ conv = Unset
    /\ back = Unset
    /\ prefs \in {p \in PrefSets : ~p.DISABLE_TITLE_AUTHOR_SEARCH /\ p.NEVER_REPLACE_ISBN}
    /\ url_cache = [g \in GoodreadsIds |-> None]
    /\ isbn_cache = [i \in Isbns |-> None]
    /\ selfLog = None
    /\ pc = [t \in Threads |-> "idle"]
    /\ args = [t \in Threads |-> NoArgs]
    /\ goodreads_id = [t \in Threads |-> None]
    /\ calls = [t \in Threads |-> <<>>]
    /\ result_queue = [t \in Threads |-> <<>>]
    /\ logs = [t \in Threads |-> {}]
    /\ outcome = [t \in Threads |-> "none"]
    /\ book = [t \in Threads |-> NoBook]
    /\ cover = [t \in Threads |-> None]
    /\ op = [t \in Threads |-> "none"]
    /\ abort = [t \in Threads |-> FALSE]
    /\ rq = [t \in Threads |-> <<>>]

\* a caller evaluates _ISBNConvert.isValid(isbn)
CallIsValid ==
    /\ valid = "unset"
    /\ valid' = isValid(isbn)
    /\ UNCHANGED <<isbn, conv, back, pluginVars>>

\* a caller evaluates _ISBNConvert.convert(isbn)
CallConvert ==
    /\ conv = Unset
    /\ conv' = convert(isbn)
    /\ UNCHANGED <<isbn, valid, back, pluginVars>>

\* a caller evaluates _ISBNConvert.convert on the value convert returned
CallConvertBack ==
    /\ conv.kind = "ok"
    /\ back = Unset
    /\ back' = convert(conv.val)
    /\ UNCHANGED <<isbn, valid, conv, pluginVars>>

CodecNext == CallIsValid \/ CallConvert \/ CallConvertBack

SpecCodec == CodecInit /\ [][CodecNext]_vars

(***************************************************************************)
(* Properties                                                               *)
(***************************************************************************)
InIdentify(t) == outcome[t] \in {"running", "returned", "raised"}

IdentifyDone(t) == pc[t] = "done" /\ outcome[t] \in {"returned", "raised"}

IsAmazonLookup(t, c) == c.api = "isbn_to_id" /\ c.arg = args[t].amazon

IsIsbnLookup(t, c) == c.api = "isbn_to_id" /\ c.arg = args[t].isbn

\* the place of a call's source in the order amazon id-lookup (1), supplied
\* goodreads id (2, no call), isbn id-lookup (3), fuzzy search (4); the detail
\* fetch comes last (5)
Rank(t, c) ==
    IF IsAmazonLookup(t, c) THEN 1
    ELSE IF IsIsbnLookup(t, c) THEN 3
    ELSE IF c.api = "auto_complete" THEN 4
    ELSE 5

YieldsId(c) == c.api # "book_show" /\ c.res \in GoodreadsIds

ErrorLogged(t) == \E e \in logs[t] : e[1] = "error"

\* C1: identify consults its sources in the order amazon id-lookup, supplied
\* goodreads id, isbn id-lookup, fuzzy search, each at most once; after a
\* source has yielded a non-empty id (or the goodreads id was supplied and no
\* earlier source yielded one) no later source is consulted: the only call
\* that may follow is the detail fetch.
C1_OrderedSources ==
    \A t \in Threads : InIdentify(t) =>
        LET cs == calls[t]
        IN  /\ \A i, j \in 1..Len(cs) : i < j => Rank(t, cs[i]) < Rank(t, cs[j])
            /\ \A i, j \in 1..Len(cs) : (i < j /\ YieldsId(cs[i])) => Rank(t, cs[j]) = 5
            /\ Truthy(args[t].goodreads) => \A i \in 1..Len(cs) : Rank(t, cs[i]) \in {1, 5}
            /\ (Truthy(args[t].amazon) /\ pc[t] # "amazon") =>
                   (Len(cs) >= 1 /\ IsAmazonLookup(t, cs[1]))
            /\ \A i \in 1..Len(cs) : Rank(t, cs[i]) = 5 =>
                   \/ \E j \in 1..(i - 1) : YieldsId(cs[j]) /\ cs[i].arg = cs[j].res
                   \/ /\ \A j \in 1..(i - 1) : ~YieldsId(cs[j])
                      /\ cs[i].arg = args[t].goodreads

\* the amazon lookup came back empty, the isbn lookup yielded the id, and the
\* fuzzy search, though a title was given and the search enabled, was skipped
C1_Witness ==
    \E t \in Threads :
        /\ IdentifyDone(t)
        /\ Truthy(args[t].title) /\ ~prefs.DISABLE_TITLE_AUTHOR_SEARCH
        /\ Len(calls[t]) = 3
        /\ IsAmazonLookup(t, calls[t][1]) /\ calls[t][1].res = ""
        /\ IsIsbnLookup(t, calls[t][2]) /\ YieldsId(calls[t][2])
        /\ calls[t][3].api = "book_show"

\* C2: with an amazon and an isbn identifier and no goodreads id, a failed
\* amazon id-lookup (it raised or returned nothing) is not propagated: the
\* isbn id-lookup is issued next, and the id it returns is the one fetched.
C2_AmazonFailureFallsThrough ==
    \A t \in Threads :
        ( /\ InIdentify(t) /\ pc[t] \in {"fuzzy", "detail", "done"}
          /\ Truthy(args[t].amazon) /\ Truthy(args[t].isbn) /\ ~Truthy(args[t].goodreads)
          /\ Len(calls[t]) >= 1 /\ IsAmazonLookup(t, calls[t][1])
          /\ ~YieldsId(calls[t][1]) )
        => /\ Len(calls[t]) >= 2
           /\ IsIsbnLookup(t, calls[t][2])
           /\ YieldsId(calls[t][2]) =>
                 /\ goodreads_id[t] = calls[t][2].res
                 /\ outcome[t] # "raised"
                 /\ pc[t] = "done" =>
                       /\ Len(calls[t]) = 3
                       /\ calls[t][3].api = "book_show"
                       /\ calls[t][3].arg = calls[t][2].res

\* the amazon lookup raised, the isbn lookup yielded the id that was fetched
C2_Witness ==
    \E t \in Threads :
        /\ IdentifyDone(t)
        /\ ~Truthy(args[t].goodreads)
        /\ Len(calls[t]) = 3
        /\ IsAmazonLookup(t, calls[t][1]) /\ calls[t][1].resp = "raise"
        /\ IsIsbnLookup(t, calls[t][2]) /\ YieldsId(calls[t][2])
        /\ calls[t][3].api = "book_show" /\ calls[t][3].arg = calls[t][2].res

DetailFetches(t) == SelectSeq(calls[t], LAMBDA c : c.api = "book_show")

\* C3: identify fetches the detail record exactly once when it holds an id,
\* as its last call; when the fetch raises or the payload cannot be parsed or
\* mapped, an error is logged and no record is put on the result sink.
C3_DetailFetchOnceAndFatal ==
    \A t \in Threads : IdentifyDone(t) =>
        /\ Len(DetailFetches(t)) = (IF Truthy(goodreads_id[t]) THEN 1 ELSE 0)
        /\ Truthy(goodreads_id[t]) =>
              LET last == calls[t][Len(calls[t])]
              IN  /\ last.api = "book_show" /\ last.arg = goodreads_id[t]
                  /\ outcome[t] = "returned"
                  /\ last.res # "ok" => (result_queue[t] = <<>> /\ ErrorLogged(t))

\* a parsed response without authors could not be mapped: logged, nothing put
C3_Witness ==
    \E t \in Threads :
        /\ IdentifyDone(t)
        /\ Len(calls[t]) >= 1
        /\ calls[t][Len(calls[t])].api = "book_show"
        /\ calls[t][Len(calls[t])].res = "TypeError"
        /\ result_queue[t] = <<>>
        /\ ErrorLogged(t)

TitleOnly(a) ==
    Truthy(a.title) /\ ~Truthy(a.amazon) /\ ~Truthy(a.goodreads) /\ ~Truthy(a.isbn)

\* C4: no identifier, a title, fuzzy search enabled and an empty result list:
\* identify ends in no-match, with no detail fetch, nothing on the result
\* sink, nothing raised and no error logged.
C4_EmptyFuzzyIsNoMatch ==
    \A t \in Threads :
        ( /\ IdentifyDone(t) /\ TitleOnly(args[t]) /\ ~prefs.DISABLE_TITLE_AUTHOR_SEARCH
          /\ Len(calls[t]) >= 1 /\ calls[t][1].api = "auto_complete"
          /\ calls[t][1].resp = "empty list" )
        => /\ Len(calls[t]) = 1
           /\ result_queue[t] = <<>>
           /\ outcome[t] = "returned"
           /\ ~ErrorLogged(t)

C4_Witness ==
    \E t \in Threads :
        /\ IdentifyDone(t) /\ TitleOnly(args[t])
        /\ calls[t] = <<Call("auto_complete", args[t].title, "empty list", None)>>
        /\ outcome[t] = "returned"

\* C5: every invocation of identify ends in exactly one of: one record
\* delivered; no record and no error (no match); an error logged and no
\* record.  No failure of a remote call escapes identify as an exception and
\* never more than one record is delivered.
C5_ThreeOutcomes ==
    \A t \in Threads : IdentifyDone(t) =>
        /\ outcome[t] # "raised"
        /\ Len(result_queue[t]) <= 1
        /\ ~(Len(result_queue[t]) = 1 /\ ErrorLogged(t))

SeqRange(q) == {q[i] : i \in 1..Len(q)}

\* C9: the tags of the record identify delivers are the configured extra
\* tags (ADD_THESE_TAGS split on commas) together with the shelf tags of the
\* record whose count is at least the configured threshold.
C9_TagsDelivered ==
    \A t \in Threads : (IdentifyDone(t) /\ Len(result_queue[t]) = 1) =>
        SeqRange(result_queue[t][1].tags)
            = SeqRange(Split(prefs.ADD_THESE_TAGS))
                  \cup SeqRange(book_tags(book[t], prefs.SHELF_COUNT_THRESHOLD))

CoverDone(t) == pc[t] = "done" /\ outcome[t] = "cover"

\* C10: get_cached_cover_url returns the cached url of the goodreads id when
\* the identifiers have one; without a goodreads id but with an isbn, the
\* cached url of the id the cache holds for that isbn; None only when the
\* cache has no such entry.
C10_CoverResolver ==
    \A t \in Threads : CoverDone(t) =>
        cover[t] =
            IF Truthy(args[t].goodreads) THEN url_cache[args[t].goodreads]
            ELSE IF Truthy(args[t].isbn) /\ isbn_cache[args[t].isbn] # None
                 THEN url_cache[isbn_cache[args[t].isbn]]
                 ELSE None

(***************************************************************************)
(* Properties of the codec                                                  *)
(***************************************************************************)
Prefix978 == <<"9", "7", "8">>

\* C6: for every s that isValid accepts with stripped length 10, convert(s)
\* is "978", then the first 9 characters of the stripped s, then one check
\* character, and isI13 accepts it.
C6_Convert10To13 ==
    (valid = "True" /\ Len(_isbn_strip(isbn)) = 10 /\ conv # Unset)
    => /\ conv.kind = "ok"
       /\ Len(conv.val) = 13
       /\ SubSeq(conv.val, 1, 3) = Prefix978
       /\ SubSeq(conv.val, 4, 12) = SubSeq(_isbn_strip(isbn), 1, 9)
       /\ isI13(conv.val) = "True"

\* C7: for every valid 13-digit ISBN t with prefix 978, convert(t) is a
\* valid ISBN-10 and convert(convert(t)) is t again, digit for digit.
C7_RoundTrip13 ==
    ( /\ valid = "True" /\ Len(_isbn_strip(isbn)) = 13
      /\ SubSeq(_isbn_strip(isbn), 1, 3) = Prefix978
      /\ conv # Unset )
    => /\ conv.kind = "ok"
       /\ Len(conv.val) = 10
       /\ isValid(conv.val) = "True"
       /\ back # Unset => back = Ok(_isbn_strip(isbn))

\* a round trip through an ISBN-10 whose check character is X
C7_Witness ==
    /\ valid = "True" /\ Len(_isbn_strip(isbn)) = 13
    /\ conv.kind = "ok" /\ Len(conv.val) = 10 /\ conv.val[10] = "X"
    /\ back = Ok(_isbn_strip(isbn))

\* C8: isValid returns true or false without raising; convert returns, or
\* fails with "Invalid ISBN" (the input fails the validity check) or with
\* "ISBN not convertible" (a valid 13-digit ISBN not starting with 978), and
\* with nothing else.
C8_OnlyExplicitFailures ==
    /\ valid \in {"unset", "True", "False"}
    /\ conv.kind \in {"unset", "ok", "Invalid ISBN", "ISBN not convertible"}
    /\ (conv.kind = "Invalid ISBN" /\ valid # "unset") => valid = "False"
    /\ conv.kind = "ISBN not convertible" =>
          /\ Len(_isbn_strip(isbn)) = 13
          /\ SubSeq(_isbn_strip(isbn), 1, 3) # Prefix978
          /\ valid # "unset" => valid = "True"

(***************************************************************************)
(* Properties of cancellation, concurrency and the cover cache              *)
(***************************************************************************)
DownloadCoverDone(t) ==
    pc[t] = "done" /\ op[t] = "download_cover" /\ ~IdentifyInsideDownloadCover(t)

ImageDownloads(t) == SelectSeq(calls[t], LAMBDA c : c.api = "open_novisit")

\* C11: with the abort event set when identify is entered, identify issues
\* no remote call and delivers no record; with it set before download_cover
\* starts the image download, download_cover returns "abort", issues no image
\* download and puts nothing on the result sink.
C11_AbortAtOuterBoundaries ==
    \A t \in Threads : abort[t] =>
        /\ op[t] = "identify" => (calls[t] = <<>> /\ result_queue[t] = <<>>)
        /\ DownloadCoverDone(t) =>
              /\ outcome[t] = "abort"
              /\ ImageDownloads(t) = <<>>
              /\ result_queue[t] = <<>>

\* C12: with identify and download_cover invocations interleaved on the one
\* instance, the cover cache is the only state one invocation writes and
\* another reads: so every message an invocation emits is in the log object
\* that was passed to that invocation.
C12_LogsStayWithTheirInvocation ==
    \A t \in Threads : \A e \in logs[t] : e[3] = t

\* invocation t puts a record on its result sink in this step
Delivers(t) == Len(result_queue'[t]) = Len(result_queue[t]) + 1

\* C13: the cover cache changes only in a step in which a lookup delivers a
\* record, and then by exactly the entry from that record's goodreads id to
\* its image url; a lookup that ends in an error or in no match leaves the
\* cache as it was.
C13_CacheOnlyOnDelivery ==
    [][ url_cache' # url_cache =>
            \E t \in Threads :
                /\ Delivers(t)
                /\ result_queue'[t][Len(result_queue'[t])].goodreads = book'[t].id
                /\ url_cache' = [url_cache EXCEPT ![book'[t].id] = book'[t].image_url]
      ]_vars

(***************************************************************************)
(* Properties of the mapping                                                *)
(***************************************************************************)
RecordDelivered(t) == IdentifyDone(t) /\ Len(result_queue[t]) = 1

\* C14: with NEVER_REPLACE_ISBN set the record identify delivers carries no
\* isbn, whatever isbn the book has and whether or not the caller passed
\* one; a delivered record carries an isbn only when the flag is cleared.
C14_NeverReplaceIsbn ==
    \A t \in Threads : RecordDelivered(t) =>
        /\ prefs.NEVER_REPLACE_ISBN => result_queue[t][1].isbn = Absent
        /\ result_queue[t][1].isbn # Absent => ~prefs.NEVER_REPLACE_ISBN

\* the flag is set, the caller passed an isbn, the book has a valid isbn13,
\* and the record delivered has no isbn
C14_Witness ==
    \E t \in Threads :
        /\ RecordDelivered(t)
        /\ prefs.NEVER_REPLACE_ISBN
        /\ Truthy(args[t].isbn)
        /\ book[t].isbn13 = I13 /\ check_isbn13(I13) = I13
        /\ result_queue[t][1].isbn = Absent

\* the isbn text of a parsed response: the 13-digit text when present,
\* otherwise the 10-digit text, otherwise absent
PreferredIsbn(b) == IF b.isbn13 # Absent THEN b.isbn13 ELSE b.isbn

\* C15: the isbn field of the Book Record is the text of book.isbn13 when
\* that is present, otherwise the text of book.isbn, otherwise absent; it is
\* never a placeholder for a missing value.
C15_IsbnPrefers13 ==
    \A t \in Threads : book[t] # NoBook =>
        /\ book_isbn(book[t]) = PreferredIsbn(book[t])
        /\ book_isbn(book[t]) # NoneText

\* the detail fetch of invocation t came back well-formed: it was parsed
WellFormedDetail(t) ==
    /\ IdentifyDone(t)
    /\ Len(calls[t]) >= 1
    /\ calls[t][Len(calls[t])].api = "book_show"
    /\ calls[t][Len(calls[t])].resp = "xml"

\* C16: a well-formed detail response with any field missing, the authors
\* and the shelf list included, is mapped and delivered with that field
\* absent or empty: reading a field never raises, and a missing field never
\* turns the lookup into the error outcome.
C16_MissingFieldsAreAbsent ==
    \A t \in Threads :
        (WellFormedDetail(t) /\ SeriesPatternCompiles(book[t].series)) =>
            /\ RecordDelivered(t)
            /\ ~ErrorLogged(t)
            /\ book[t].authors = Absent => result_queue[t][1].authors = <<>>

(***************************************************************************)
(* Properties of download_cover                                             *)
(***************************************************************************)
\* download_cover found no cached url and ran identify, which mapped a book
\* with an image url and cached it
IdentifyCachedCover(t) ==
    /\ op[t] = "download_cover"
    /\ Len(rq[t]) = 1
    /\ Truthy(book[t].image_url)
    /\ url_cache[book[t].id] = book[t].image_url

\* C17: when download_cover finds no cached url and the identify it runs
\* succeeds and caches one, download_cover uses that url: it does not report
\* "could not identify", and unless aborted it downloads the cover from it,
\* whichever identifiers (isbn, amazon, title) resolved the book.
C17_DownloadCoverUsesIdentify ==
    \A t \in Threads : (DownloadCoverDone(t) /\ IdentifyCachedCover(t)) =>
        /\ outcome[t] # "Could not identify"
        /\ cover[t] = book[t].image_url
        /\ ~abort[t] => /\ Len(ImageDownloads(t)) = 1
                        /\ ImageDownloads(t)[1].arg = book[t].image_url

====
